---- MODULE Spec2Model ----
(***************************************************************************)
(* scx_horoscope: the astrological scheduling policy engine.               *)
(*                                                                         *)
(* The model covers the scoring engine (src/astrology/scheduler.rs), its   *)
(* snapshot cache, the snapshot builder (src/astrology/planets.rs) and the *)
(* task classifier (src/astrology/tasks.rs).                               *)
(*                                                                         *)
(* Numbers.  Longitudes are held in thousandths of a degree (MilliDeg).    *)
(* The priority arithmetic of schedule_task is done in IEEE-754 binary64,  *)
(* and the result is truncated by `as u32`; binary64 is modelled bit for   *)
(* bit (53-bit significand, round-to-nearest-even) on top of a small       *)
(* natural-number arithmetic over 14-bit limbs, because the truncation     *)
(* makes the last bit of a product observable in the priority.             *)
(***************************************************************************)
EXTENDS Integers, Sequences, FiniteSets, TLC

(***************************************************************************)
(* Natural numbers of arbitrary size: little-endian sequences of limbs in  *)
(* 0..LIMB-1 without high zero limbs; <<>> is zero.                        *)
(***************************************************************************)
LIMB == 16384

LIMB_BITS == 14

RECURSIVE Pow2(_)
Pow2(k) == IF k = 0 THEN 1 ELSE 2 * Pow2(k - 1)

RECURSIVE BitLenNat(_)
BitLenNat(n) == IF n = 0 THEN 0 ELSE 1 + BitLenNat(n \div 2)

RECURSIVE BigFromNat(_)
BigFromNat(n) == IF n = 0 THEN <<>> ELSE <<n % LIMB>> \o BigFromNat(n \div LIMB)

RECURSIVE BigToNat(_)
BigToNat(a) == IF a = <<>> THEN 0 ELSE Head(a) + LIMB * BigToNat(Tail(a))

\* prepend a low limb, keeping zero canonical
BigCons(l, a) == IF l = 0 /\ a = <<>> THEN <<>> ELSE <<l>> \o a

RECURSIVE BigAddC(_, _, _)
BigAddC(a, b, c) ==
    IF a = <<>> /\ b = <<>> THEN BigFromNat(c)
    ELSE LET x == IF a = <<>> THEN 0 ELSE Head(a)
             y == IF b = <<>> THEN 0 ELSE Head(b)
             t == x + y + c
         IN  BigCons(t % LIMB,
                     BigAddC(IF a = <<>> THEN <<>> ELSE Tail(a),
                             IF b = <<>> THEN <<>> ELSE Tail(b),
                             t \div LIMB))

BigAdd(a, b) == BigAddC(a, b, 0)

\* a * k + c for a small factor k (k < 2^16)
RECURSIVE BigMulSmallC(_, _, _)
BigMulSmallC(a, k, c) ==
    IF a = <<>> THEN BigFromNat(c)
    ELSE LET t == Head(a) * k + c
         IN  BigCons(t % LIMB, BigMulSmallC(Tail(a), k, t \div LIMB))

RECURSIVE BigMul(_, _)
BigMul(a, b) ==
    IF a = <<>> \/ b = <<>> THEN <<>>
    ELSE BigAdd(BigMulSmallC(b, Head(a), 0), BigCons(0, BigMul(Tail(a), b)))

\* quotient and remainder of a by a small divisor d (d < 2^17)
RECURSIVE BigDivRem(_, _)
BigDivRem(a, d) ==
    IF a = <<>> THEN [q |-> <<>>, r |-> 0]
    ELSE LET hi == BigDivRem(Tail(a), d)
             t  == hi.r * LIMB + Head(a)
         IN  [q |-> BigCons(t \div d, hi.q), r |-> t % d]

BigBitLen(a) ==
    IF a = <<>> THEN 0 ELSE LIMB_BITS * (Len(a) - 1) + BitLenNat(a[Len(a)])

\* bit i (0 = least significant) of a
BigBit(a, i) ==
    LET k == (i \div LIMB_BITS) + 1
    IN  IF k > Len(a) THEN 0 ELSE (a[k] \div Pow2(i % LIMB_BITS)) % 2

RECURSIVE BigShlLimbs(_, _)
BigShlLimbs(a, n) == IF n = 0 THEN a ELSE BigCons(0, BigShlLimbs(a, n - 1))

BigShl(a, n) ==
    BigShlLimbs(BigMulSmallC(a, Pow2(n % LIMB_BITS), 0), n \div LIMB_BITS)

BigShr(a, n) ==
    LET k == n \div LIMB_BITS
    IN  IF k >= Len(a) THEN <<>>
        ELSE BigDivRem(SubSeq(a, k + 1, Len(a)), Pow2(n % LIMB_BITS)).q

\* a < b
RECURSIVE BigLess(_, _)
BigLess(a, b) ==
    IF Len(a) # Len(b) THEN Len(a) < Len(b)
    ELSE IF a = <<>> THEN FALSE
    ELSE IF a[Len(a)] # b[Len(b)] THEN a[Len(a)] < b[Len(b)]
    ELSE BigLess(SubSeq(a, 1, Len(a) - 1), SubSeq(b, 1, Len(b) - 1))

(***************************************************************************)
(* IEEE-754 binary64.  A value is [neg, mant, exp] = (-1)^neg * mant *     *)
(* 2^exp with 2^52 <= mant < 2^53, or mant = <<>> for zero.  The values of *)
(* this program stay far from the subnormal and overflow ranges.           *)
(***************************************************************************)
F64_MANT_BITS == 53

F64Zero == [neg |-> FALSE, mant |-> <<>>, exp |-> 0]

\* the binary64 nearest to n * 2^e (ties to even)
F64Round(neg, n, e) ==
    LET len == BigBitLen(n)
    IN  IF n = <<>> THEN F64Zero
        ELSE IF len <= F64_MANT_BITS
        THEN [neg |-> neg, mant |-> BigShl(n, F64_MANT_BITS - len),
              exp |-> e - (F64_MANT_BITS - len)]
        ELSE LET sh     == len - F64_MANT_BITS
                 q      == BigShr(n, sh)
                 guard  == BigBit(n, sh - 1) = 1
                 sticky == BigShl(BigShr(n, sh - 1), sh - 1) # n
                 up     == guard /\ (sticky \/ BigBit(q, 0) = 1)
                 q2     == IF up THEN BigAdd(q, <<1>>) ELSE q
             IN  IF BigBitLen(q2) > F64_MANT_BITS
                 THEN [neg |-> neg, mant |-> BigShr(q2, 1), exp |-> e + sh + 1]
                 ELSE [neg |-> neg, mant |-> q2, exp |-> e + sh]

\* f64::from(i) for a 32-bit integer i
F64FromInt(i) == F64Round(i < 0, BigFromNat(IF i < 0 THEN -i ELSE i), 0)

\* the value of the decimal literal num/den (den a power of ten), as the
\* compiler rounds it; a non-zero remainder is kept as a sticky low bit
F64Lit(neg, num, den) ==
    LET d == BigDivRem(BigShl(BigFromNat(num), 70), den)
    IN  F64Round(neg, BigAddC(d.q, d.q, IF d.r = 0 THEN 0 ELSE 1), -71)

F64Mul(a, b) == F64Round(a.neg # b.neg, BigMul(a.mant, b.mant), a.exp + b.exp)

\* a < b
F64Less(a, b) ==
    LET magLess(x, y) ==
            IF x.mant = <<>> THEN y.mant # <<>>
            ELSE IF y.mant = <<>> THEN FALSE
            ELSE IF x.exp # y.exp THEN x.exp < y.exp
            ELSE BigLess(x.mant, y.mant)
    IN  IF a.mant = <<>> /\ b.mant = <<>> THEN FALSE
        ELSE IF a.neg /\ ~b.neg THEN TRUE
        ELSE IF ~a.neg /\ b.neg THEN FALSE
        ELSE IF a.neg THEN magLess(b, a)
        ELSE magLess(a, b)

\* a - b for a >= b
RECURSIVE BigSubB(_, _, _)
BigSubB(a, b, borrow) ==
    IF a = <<>> THEN <<>>
    ELSE LET y == (IF b = <<>> THEN 0 ELSE Head(b)) + borrow
             t == Head(a) - y
         IN  BigCons(IF t < 0 THEN t + LIMB ELSE t,
                     BigSubB(Tail(a), IF b = <<>> THEN <<>> ELSE Tail(b),
                             IF t < 0 THEN 1 ELSE 0))

BigSub(a, b) == BigSubB(a, b, 0)

F64Neg(a) == IF a.mant = <<>> THEN a ELSE [a EXCEPT !.neg = ~a.neg]

\* a + b: the exact sum, rounded once
F64Add(a, b) ==
    IF a.mant = <<>> THEN b
    ELSE IF b.mant = <<>> THEN a
    ELSE LET e == IF a.exp < b.exp THEN a.exp ELSE b.exp
             x == BigShl(a.mant, a.exp - e)
             y == BigShl(b.mant, b.exp - e)
         IN  IF a.neg = b.neg THEN F64Round(a.neg, BigAdd(x, y), e)
             ELSE IF BigLess(x, y) THEN F64Round(b.neg, BigSub(y, x), e)
             ELSE F64Round(a.neg, BigSub(x, y), e)

F64Sub(a, b) == F64Add(a, F64Neg(b))

U32_CAST_CAP == 2147483647

\* `x as u32`: truncation toward zero, negative values give 0; values
\* beyond the integers of the checker are capped (never reached here)
F64AsU32(a) ==
    IF a.neg \/ a.mant = <<>> THEN 0
    ELSE IF a.exp + F64_MANT_BITS > 31 THEN U32_CAST_CAP
    ELSE IF a.exp >= 0 THEN BigToNat(BigShl(a.mant, a.exp))
    ELSE BigToNat(BigShr(a.mant, -a.exp))

F64_360_0 == F64FromInt(360)

\* `a % 360.0`: the remainder of the truncated division, which is exact
F64Rem360(a) ==
    IF a.mant = <<>> \/ F64Less([a EXCEPT !.neg = FALSE], F64_360_0) THEN a
    ELSE LET n   == BigShl(a.mant, a.exp + 44)
             hi  == BigShr(n, 44)
             lo  == BigSub(n, BigShl(hi, 44))
             rem == BigDivRem(hi, 360).r
         IN  F64Round(a.neg, BigAdd(BigShl(BigFromNat(rem), 44), lo), -44)

\* f64::rem_euclid(360.0): `let r = self % rhs; if r < 0.0 { r + rhs.abs() }
\* else { r }`
f64_rem_euclid_360(a) ==
    LET r == F64Rem360(a)
    IN  IF F64Less(r, F64Zero) THEN F64Add(r, F64_360_0) ELSE r

(***************************************************************************)
(* Celestial state model (planets.rs).                                     *)
(***************************************************************************)
Planet == {"Sun", "Moon", "Mercury", "Venus", "Mars", "Jupiter", "Saturn"}

\* the bodies whose direction is derived by is_retrograde
OrdinaryPlanet == {"Mercury", "Venus", "Mars", "Jupiter", "Saturn"}

ZodiacSign ==
    <<"Aries", "Taurus", "Gemini", "Cancer", "Leo", "Virgo", "Libra",
      "Scorpio", "Sagittarius", "Capricorn", "Aquarius", "Pisces">>

Element == {"Fire", "Earth", "Air", "Water"}

MoonPhase ==
    <<"NewMoon", "WaxingCrescent", "FirstQuarter", "WaxingGibbous",
      "FullMoon", "WaningGibbous", "LastQuarter", "WaningCrescent">>

NoPhase == "None"

\* longitudes are thousandths of a degree
MILLI == 1000

FULL_CIRCLE == 360 * MILLI

\* f64::rem_euclid(360.0)
rem_euclid_360(x) == x % FULL_CIRCLE

\* ZodiacSign::from_longitude: `normalized as u32 / 30`
from_longitude(longitude) ==
    LET normalized == rem_euclid_360(longitude)
        index      == (normalized \div MILLI) \div 30
    IN  IF index <= 10 THEN ZodiacSign[index + 1] ELSE "Pisces"

\* ZodiacSign::element
element(sign) ==
    CASE sign \in {"Aries", "Leo", "Sagittarius"}    -> "Fire"
      [] sign \in {"Taurus", "Virgo", "Capricorn"}   -> "Earth"
      [] sign \in {"Gemini", "Libra", "Aquarius"}    -> "Air"
      [] sign \in {"Cancer", "Scorpio", "Pisces"}    -> "Water"

\* MoonPhase::from_angle
from_angle(angle) ==
    LET a == rem_euclid_360(angle)
    IN  IF a < 45 * MILLI THEN "NewMoon"
        ELSE IF a < 90 * MILLI THEN "WaxingCrescent"
        ELSE IF a < 135 * MILLI THEN "FirstQuarter"
        ELSE IF a < 180 * MILLI THEN "WaxingGibbous"
        ELSE IF a < 225 * MILLI THEN "FullMoon"
        ELSE IF a < 270 * MILLI THEN "WaningGibbous"
        ELSE IF a < 315 * MILLI THEN "LastQuarter"
        ELSE "WaningCrescent"

\* ZodiacSign::from_longitude on a binary64 longitude
ZodiacSign_from_longitude(longitude) ==
    LET normalized == f64_rem_euclid_360(longitude)
        index      == F64AsU32(normalized) \div 30
    IN  IF index <= 10 THEN ZodiacSign[index + 1] ELSE "Pisces"

\* MoonPhase::from_angle on a binary64 angle
MoonPhase_from_angle(angle) ==
    LET a == f64_rem_euclid_360(angle)
    IN  IF F64Less(a, F64FromInt(45)) THEN "NewMoon"
        ELSE IF F64Less(a, F64FromInt(90)) THEN "WaxingCrescent"
        ELSE IF F64Less(a, F64FromInt(135)) THEN "FirstQuarter"
        ELSE IF F64Less(a, F64FromInt(180)) THEN "WaxingGibbous"
        ELSE IF F64Less(a, F64FromInt(225)) THEN "FullMoon"
        ELSE IF F64Less(a, F64FromInt(270)) THEN "WaningGibbous"
        ELSE IF F64Less(a, F64FromInt(315)) THEN "LastQuarter"
        ELSE "WaningCrescent"

\* calculate_planetary_positions: `(moon_lon_deg - sun_lon_deg)
\* .rem_euclid(360.0)` on binary64 longitudes
f64_sun_moon_angle(moon_lon_deg, sun_lon_deg) ==
    f64_rem_euclid_360(F64Sub(moon_lon_deg, sun_lon_deg))

(***************************************************************************)
(* Position snapshot builder (planets.rs).  The position solver is the     *)
(* external astro crate; one answer of it is a "sky": the longitude of     *)
(* every body at the moment (today) and of every ordinary body one day     *)
(* later (tomorrow), each already limited to [0, 360).                     *)
(***************************************************************************)
\* is_retrograde with the two wraparound cases exchanged
is_retrograde_flipped(lon_today, lon_tomorrow) ==
    LET delta == lon_tomorrow - lon_today
    IN  IF delta > 180 * MILLI THEN FALSE
        ELSE IF delta < -(180 * MILLI) THEN TRUE
        ELSE delta < 0

\* is_retrograde, after its two solver queries
is_retrograde(lon_today, lon_tomorrow) ==
    LET delta == lon_tomorrow - lon_today
    IN  IF delta > 180 * MILLI THEN TRUE
        ELSE IF delta < -(180 * MILLI) THEN FALSE
        ELSE delta < 0

PlanetaryPosition(planet, longitude, retrograde, moon_phase) ==
    [planet |-> planet, longitude |-> longitude,
     sign |-> from_longitude(longitude),
     retrograde |-> retrograde, moon_phase |-> moon_phase]

OrdinaryPosition(sky, planet) ==
    PlanetaryPosition(planet, sky.today[planet],
                      is_retrograde(sky.today[planet], sky.tomorrow[planet]),
                      NoPhase)

\* calculate_planetary_positions attaching the lunar phase to the Sun's
\* record as well
calculate_planetary_positions_sun_phase(sky) ==
    LET sun_lon_deg    == sky.today["Sun"]
        moon_lon_deg   == sky.today["Moon"]
        sun_moon_angle == rem_euclid_360(moon_lon_deg - sun_lon_deg)
        phase          == from_angle(sun_moon_angle)
    IN  << PlanetaryPosition("Sun", sun_lon_deg, FALSE, phase),
           OrdinaryPosition(sky, "Mercury"),
           OrdinaryPosition(sky, "Venus"),
           OrdinaryPosition(sky, "Mars"),
           OrdinaryPosition(sky, "Jupiter"),
           OrdinaryPosition(sky, "Saturn"),
           PlanetaryPosition("Moon", moon_lon_deg, FALSE, phase) >>

\* calculate_planetary_positions: Sun, the five ordinary bodies, Moon
calculate_planetary_positions(sky) ==
    LET sun_lon_deg    == sky.today["Sun"]
        moon_lon_deg   == sky.today["Moon"]
        sun_moon_angle == rem_euclid_360(moon_lon_deg - sun_lon_deg)
        phase          == from_angle(sun_moon_angle)
    IN  << PlanetaryPosition("Sun", sun_lon_deg, FALSE, NoPhase),
           OrdinaryPosition(sky, "Mercury"),
           OrdinaryPosition(sky, "Venus"),
           OrdinaryPosition(sky, "Mars"),
           OrdinaryPosition(sky, "Jupiter"),
           OrdinaryPosition(sky, "Saturn"),
           PlanetaryPosition("Moon", moon_lon_deg, FALSE, phase) >>

\* the queries is_retrograde sends to the solver: the body at jd_today and
\* at jd_tomorrow
is_retrograde_queries(planet) ==
    << [body |-> planet, day |-> "today"], [body |-> planet, day |-> "tomorrow"] >>

\* the queries of an ordinary body: its position, then those of is_retrograde
OrdinaryQueries(planet) ==
    << [body |-> planet, day |-> "today"] >> \o is_retrograde_queries(planet)

\* the queries calculate_planetary_positions sends to the solver, in order
calculate_planetary_positions_queries ==
    << [body |-> "Sun", day |-> "today"] >>
        \o OrdinaryQueries("Mercury") \o OrdinaryQueries("Venus")
        \o OrdinaryQueries("Mars") \o OrdinaryQueries("Jupiter")
        \o OrdinaryQueries("Saturn")
        \o << [body |-> "Moon", day |-> "today"] >>

\* positions.iter().find(|p| p.planet == planet)
FindPlanet(positions, planet) ==
    LET hits == {i \in 1..Len(positions) : positions[i].planet = planet}
    IN  positions[CHOOSE i \in hits : \A j \in hits : i <= j]

(***************************************************************************)
(* Task classifier (tasks.rs).                                             *)
(***************************************************************************)
TaskType ==
    {"Network", "CpuIntensive", "Desktop", "MemoryHeavy", "System",
     "Interactive", "Critical"}

\* TaskType::ruling_planet
ruling_planet(task_type) ==
    CASE task_type = "Network"      -> "Mercury"
      [] task_type = "CpuIntensive" -> "Mars"
      [] task_type = "Desktop"      -> "Venus"
      [] task_type = "MemoryHeavy"  -> "Jupiter"
      [] task_type = "System"       -> "Saturn"
      [] task_type = "Interactive"  -> "Moon"
      [] task_type = "Critical"     -> "Sun"

\* the (pattern, task type) pairs TaskClassifier::new inserts, in source order
PatternTable ==
    << <<"ssh", "Network">>, <<"sshd", "Network">>, <<"curl", "Network">>,
       <<"wget", "Network">>, <<"transmission", "Network">>,
       <<"discord", "Network">>, <<"slack", "Network">>,
       <<"teams", "Network">>, <<"zoom", "Network">>,
       <<"thunderbird", "Network">>, <<"evolution", "Network">>,
       <<"networkmanager", "Network">>, <<"dhcpcd", "Network">>,
       <<"wpa_supplicant", "Network">>, <<"nginx", "Network">>,
       <<"apache", "Network">>, <<"httpd", "Network">>,
       <<"node", "Network">>, <<"npm", "Network">>, <<"deno", "Network">>,
       <<"cc1", "CpuIntensive">>, <<"rustc", "CpuIntensive">>,
       <<"make", "CpuIntensive">>, <<"cargo", "CpuIntensive">>,
       <<"gcc", "CpuIntensive">>, <<"clang", "CpuIntensive">>,
       <<"g++", "CpuIntensive">>, <<"ld", "CpuIntensive">>,
       <<"as", "CpuIntensive">>, <<"ffmpeg", "CpuIntensive">>,
       <<"blender", "CpuIntensive">>, <<"gimp", "CpuIntensive">>,
       <<"inkscape", "CpuIntensive">>, <<"handbrake", "CpuIntensive">>,
       <<"x264", "CpuIntensive">>, <<"x265", "CpuIntensive">>,
       <<"vpxenc", "CpuIntensive">>, <<"tar", "CpuIntensive">>,
       <<"gzip", "CpuIntensive">>, <<"bzip2", "CpuIntensive">>,
       <<"xz", "CpuIntensive">>, <<"zip", "CpuIntensive">>,
       <<"7z", "CpuIntensive">>, <<"convert", "CpuIntensive">>,
       <<"montage", "CpuIntensive">>, <<"gnome-shell", "Desktop">>,
       <<"kde", "Desktop">>, <<"plasma", "Desktop">>, <<"kwin", "Desktop">>,
       <<"xorg", "Desktop">>, <<"wayland", "Desktop">>,
       <<"pulseaudio", "Desktop">>, <<"pipewire", "Desktop">>,
       <<"mutter", "Desktop">>, <<"compiz", "Desktop">>,
       <<"enlightenment", "Desktop">>, <<"xfce4", "Desktop">>,
       <<"lxde", "Desktop">>, <<"mate-panel", "Desktop">>,
       <<"cinnamon", "Desktop">>, <<"budgie", "Desktop">>,
       <<"polybar", "Desktop">>, <<"waybar", "Desktop">>,
       <<"dunst", "Desktop">>, <<"mako", "Desktop">>, <<"rofi", "Desktop">>,
       <<"dmenu", "Desktop">>, <<"postgres", "MemoryHeavy">>,
       <<"postgresql", "MemoryHeavy">>, <<"mysql", "MemoryHeavy">>,
       <<"mariadb", "MemoryHeavy">>, <<"redis", "MemoryHeavy">>,
       <<"memcached", "MemoryHeavy">>, <<"mongodb", "MemoryHeavy">>,
       <<"cassandra", "MemoryHeavy">>, <<"elasticsearch", "MemoryHeavy">>,
       <<"java", "MemoryHeavy">>, <<"electron", "MemoryHeavy">>,
       <<"idea", "MemoryHeavy">>, <<"pycharm", "MemoryHeavy">>,
       <<"studio", "MemoryHeavy">>, <<"vscode", "MemoryHeavy">>,
       <<"code", "MemoryHeavy">>, <<"docker", "MemoryHeavy">>,
       <<"containerd", "MemoryHeavy">>, <<"qemu", "MemoryHeavy">>,
       <<"virtualbox", "MemoryHeavy">>, <<"systemd", "System">>,
       <<"init", "System">>, <<"kworker", "System">>, <<"kswapd", "System">>,
       <<"kthreadd", "System">>, <<"ksoftirqd", "System">>,
       <<"migration", "System">>, <<"rcu", "System">>,
       <<"watchdog", "System">>, <<"irqbalance", "System">>,
       <<"systemd-journald", "System">>, <<"systemd-udevd", "System">>,
       <<"systemd-logind", "System">>, <<"dbus-daemon", "System">>,
       <<"accounts-daemon", "System">>, <<"polkitd", "System">>,
       <<"rtkit-daemon", "System">>, <<"udisksd", "System">>,
       <<"upowerd", "System">>, <<"bash", "Interactive">>,
       <<"zsh", "Interactive">>, <<"fish", "Interactive">>,
       <<"sh", "Interactive">>, <<"vim", "Interactive">>,
       <<"nvim", "Interactive">>, <<"emacs", "Interactive">>,
       <<"nano", "Interactive">>, <<"less", "Interactive">>,
       <<"more", "Interactive">>, <<"cat", "Interactive">>,
       <<"grep", "Interactive">>, <<"awk", "Interactive">>,
       <<"sed", "Interactive">>, <<"tmux", "Interactive">>,
       <<"screen", "Interactive">>, <<"htop", "Interactive">>,
       <<"top", "Interactive">>, <<"btop", "Interactive">>,
       <<"glances", "Interactive">>, <<"alacritty", "Interactive">>,
       <<"kitty", "Interactive">>, <<"konsole", "Interactive">>,
       <<"gnome-terminal", "Interactive">>, <<"terminator", "Interactive">>,
       <<"yakuake", "Interactive">>, <<"st", "Interactive">> >>

\* the std HashMap iterates in an order fixed by the random hash state its
\* instance was created with; an instance is identified by its seed
NumHashSeeds == 2

HashSeeds == 1..NumHashSeeds

Reverse(seq) == [i \in 1..Len(seq) |-> seq[Len(seq) + 1 - i]]

Rotate(seq, k) == [i \in 1..Len(seq) |-> seq[((i - 1 + k) % Len(seq)) + 1]]

\* the iteration order of `&self.patterns` for an instance
IterationOrder(hash_seed) ==
    IF hash_seed % 2 = 1
    THEN Rotate(PatternTable, 37 * (hash_seed - 1))
    ELSE Reverse(Rotate(PatternTable, 37 * (hash_seed - 2)))

\* str::contains
Contains(s, p) ==
    \E i \in 1..(Len(s) - Len(p) + 1) : SubSeq(s, i, i + Len(p) - 1) = p

\* str::starts_with
StartsWith(s, p) == Len(p) <= Len(s) /\ SubSeq(s, 1, Len(p)) = p

\* classify without the exact-match lookup
classify_scan_no_exact(order, comm) ==
    LET hits  == {i \in 1..Len(order) :
                     StartsWith(comm, order[i][1]) \/ Contains(comm, order[i][1])}
    IN  IF Contains(comm, "firefox") \/ Contains(comm, "chrome")
           \/ Contains(comm, "chromium")
        THEN "Network"
        ELSE IF hits # {}
        THEN order[CHOOSE i \in hits : \A j \in hits : i <= j][2]
        ELSE "Interactive"

\* classify whose fallback tests starts_with only
classify_scan_prefix_only(order, comm) ==
    LET exact == {i \in 1..Len(order) : order[i][1] = comm}
        hits  == {i \in 1..Len(order) : StartsWith(comm, order[i][1])}
    IN  IF Contains(comm, "firefox") \/ Contains(comm, "chrome")
           \/ Contains(comm, "chromium")
        THEN "Network"
        ELSE IF exact # {} THEN order[CHOOSE i \in exact : TRUE][2]
        ELSE IF hits # {}
        THEN order[CHOOSE i \in hits : \A j \in hits : i <= j][2]
        ELSE "Interactive"

\* classify consulting the browser names after the table
classify_scan_browser_last(order, comm) ==
    LET exact == {i \in 1..Len(order) : order[i][1] = comm}
        hits  == {i \in 1..Len(order) :
                     StartsWith(comm, order[i][1]) \/ Contains(comm, order[i][1])}
    IN  IF exact # {} THEN order[CHOOSE i \in exact : TRUE][2]
        ELSE IF hits # {}
        THEN order[CHOOSE i \in hits : \A j \in hits : i <= j][2]
        ELSE IF Contains(comm, "firefox") \/ Contains(comm, "chrome")
                \/ Contains(comm, "chromium")
        THEN "Network"
        ELSE "Interactive"

\* TaskClassifier::classify over the iteration order of the instance
classify_scan(order, comm) ==
    LET exact == {i \in 1..Len(order) : order[i][1] = comm}
        hits  == {i \in 1..Len(order) :
                     StartsWith(comm, order[i][1]) \/ Contains(comm, order[i][1])}
    IN  IF Contains(comm, "firefox") \/ Contains(comm, "chrome")
           \/ Contains(comm, "chromium")
        THEN "Network"
        ELSE IF exact # {} THEN order[CHOOSE i \in exact : TRUE][2]
        ELSE IF hits # {}
        THEN order[CHOOSE i \in hits : \A j \in hits : i <= j][2]
        ELSE "Interactive"

\* is_critical testing for the idle task instead of init
is_critical_pid0(pid) == pid = 0

\* is_critical taking every pid up to 1 for init
is_critical_up_to_1(pid) == pid <= 1

\* TaskClassifier::is_critical
is_critical(pid) == pid = 1

(***************************************************************************)
(* The f64 literals of scheduler.rs, as the compiler rounds them.          *)
(***************************************************************************)
F64_0_0 == F64Zero

F64_NEG_1_0 == F64Lit(TRUE, 10, 10)

F64_0_3 == F64Lit(FALSE, 3, 10)

F64_0_6 == F64Lit(FALSE, 6, 10)

F64_0_7 == F64Lit(FALSE, 7, 10)

F64_0_8 == F64Lit(FALSE, 8, 10)

F64_0_85 == F64Lit(FALSE, 85, 100)

F64_0_9 == F64Lit(FALSE, 9, 10)

F64_0_95 == F64Lit(FALSE, 95, 100)

F64_1_0 == F64Lit(FALSE, 10, 10)

F64_1_05 == F64Lit(FALSE, 105, 100)

F64_1_1 == F64Lit(FALSE, 11, 10)

F64_1_2 == F64Lit(FALSE, 12, 10)

F64_1_3 == F64Lit(FALSE, 13, 10)

F64_1_4 == F64Lit(FALSE, 14, 10)

F64_1_5 == F64Lit(FALSE, 15, 10)

F64_2_0 == F64Lit(FALSE, 20, 10)

(***************************************************************************)
(* Scoring engine (scheduler.rs): pure parts.                              *)
(***************************************************************************)
\* Option::None of planetary_cache
None == [time |-> -1, positions |-> <<>>]

\* the refresh test with the snapshot expiring at, not after, the time to live
needs_refresh_expired_at_ttl(cache, now, cache_duration) ==
    IF cache = None THEN TRUE
    ELSE now - cache.time >= cache_duration

\* the refresh test ignoring the time to live
needs_refresh_any_later(cache, now, cache_duration) ==
    IF cache = None THEN TRUE
    ELSE now - cache.time > 0

\* the refresh test of get_planetary_positions
needs_refresh(cache, now, cache_duration) ==
    IF cache = None THEN TRUE
    ELSE now - cache.time > cache_duration

\* calculate_planetary_influence with the Earth and Air weights exchanged
calculate_planetary_influence_swapped(position) ==
    IF position.retrograde THEN F64_NEG_1_0
    ELSE CASE element(position.sign) = "Fire"  -> F64_1_3
           [] element(position.sign) = "Earth" -> F64_1_2
           [] element(position.sign) = "Air"   -> F64_1_1
           [] element(position.sign) = "Water" -> F64_1_0

\* calculate_planetary_influence
calculate_planetary_influence(position) ==
    IF position.retrograde THEN F64_NEG_1_0
    ELSE CASE element(position.sign) = "Fire"  -> F64_1_3
           [] element(position.sign) = "Earth" -> F64_1_1
           [] element(position.sign) = "Air"   -> F64_1_2
           [] element(position.sign) = "Water" -> F64_1_0

\* moon_phase_modifier
moon_phase_modifier(phase) ==
    CASE phase = "FullMoon"       -> F64_1_4
      [] phase = "WaxingGibbous"  -> F64_1_2
      [] phase = "FirstQuarter"   -> F64_1_1
      [] phase = "WaxingCrescent" -> F64_1_05
      [] phase = "NewMoon"        -> F64_0_8
      [] phase = "WaningGibbous"  -> F64_0_95
      [] phase = "LastQuarter"    -> F64_0_9
      [] phase = "WaningCrescent" -> F64_0_85

\* calculate_element_boost without the (Water, Desktop) affinity
calculate_element_boost_no_water_desktop(positions, task_type) ==
    LET planet_pos == FindPlanet(positions, ruling_planet(task_type))
        elem       == element(planet_pos.sign)
    IN  IF (elem = "Fire" /\ task_type = "CpuIntensive")
           \/ (elem = "Air" /\ task_type = "Network") THEN F64_1_5
        ELSE IF elem = "Earth" /\ task_type = "System" THEN F64_1_4
        ELSE IF (elem = "Water" /\ task_type = "MemoryHeavy")
                \/ (elem = "Air" /\ task_type = "Desktop") THEN F64_1_3
        ELSE IF (elem = "Water" /\ task_type = "CpuIntensive")
                \/ (elem = "Earth" /\ task_type = "Network") THEN F64_0_6
        ELSE IF (elem = "Air" /\ task_type = "System")
                \/ (elem = "Fire" /\ task_type = "MemoryHeavy") THEN F64_0_7
        ELSE F64_1_0

\* calculate_element_boost
calculate_element_boost(positions, task_type) ==
    LET planet_pos == FindPlanet(positions, ruling_planet(task_type))
        elem       == element(planet_pos.sign)
    IN  IF (elem = "Fire" /\ task_type = "CpuIntensive")
           \/ (elem = "Air" /\ task_type = "Network") THEN F64_1_5
        ELSE IF elem = "Earth" /\ task_type = "System" THEN F64_1_4
        ELSE IF (elem = "Water" /\ task_type = "MemoryHeavy")
                \/ (elem \in {"Air", "Water"} /\ task_type = "Desktop") THEN F64_1_3
        ELSE IF (elem = "Water" /\ task_type = "CpuIntensive")
                \/ (elem = "Earth" /\ task_type = "Network") THEN F64_0_6
        ELSE IF (elem = "Air" /\ task_type = "System")
                \/ (elem = "Fire" /\ task_type = "MemoryHeavy") THEN F64_0_7
        ELSE F64_1_0

\* the moon phase step of schedule_task (lines 131-138)
apply_moon_phase(positions, task_type, element_boost) ==
    IF task_type = "Interactive"
       /\ \E i \in 1..Len(positions) : positions[i].planet = "Moon"
       /\ FindPlanet(positions, "Moon").moon_phase # NoPhase
    THEN F64Mul(element_boost,
                moon_phase_modifier(FindPlanet(positions, "Moon").moon_phase))
    ELSE element_boost

\* base_priority with a system task weighted like a critical one
base_priority_system_critical(task_type) ==
    CASE task_type \in {"Critical", "System"} -> 1000
      [] task_type = "Interactive"  -> 150
      [] task_type = "Desktop"      -> 120
      [] task_type \in {"CpuIntensive", "Network"} -> 100
      [] task_type = "MemoryHeavy"  -> 80

\* base_priority of schedule_task
base_priority(task_type) ==
    CASE task_type = "Critical"     -> 1000
      [] task_type = "System"       -> 200
      [] task_type = "Interactive"  -> 150
      [] task_type = "Desktop"      -> 120
      [] task_type \in {"CpuIntensive", "Network"} -> 100
      [] task_type = "MemoryHeavy"  -> 80

Max(a, b) == IF a >= b THEN a ELSE b

\* influenced_priority with the boost applied to the retrograde penalty
influenced_priority_boosted_penalty(base, planetary_influence, element_boost) ==
    IF ~F64Less(planetary_influence, F64_0_0)
    THEN F64AsU32(F64Mul(F64Mul(F64FromInt(base), planetary_influence),
                         element_boost))
    ELSE F64AsU32(F64Mul(F64Mul(F64FromInt(base), F64_0_3), element_boost))

\* influenced_priority of schedule_task
influenced_priority(base, planetary_influence, element_boost) ==
    IF ~F64Less(planetary_influence, F64_0_0)
    THEN F64AsU32(F64Mul(F64Mul(F64FromInt(base), planetary_influence),
                         element_boost))
    ELSE F64AsU32(F64Mul(F64FromInt(base), F64_0_3))

\* the priority without the retrograde branch and without the floor
task_priority_unclamped(task_type, planetary_influence, element_boost) ==
    F64AsU32(F64Mul(F64Mul(F64FromInt(base_priority(task_type)),
                           planetary_influence), element_boost))

\* the priority schedule_task returns for a non-critical task
task_priority(task_type, planetary_influence, element_boost) ==
    Max(influenced_priority(base_priority(task_type), planetary_influence,
                            element_boost), 1)

\* create_reasoning with the debuff test `boost <= 0.7`
create_reasoning_debuff_inclusive(task_type, planet_pos, influence, boost) ==
    LET elem == element(planet_pos.sign)
        opposition ==
            IF elem = "Water" /\ task_type = "CpuIntensive" THEN "Water dampens fire"
            ELSE IF elem = "Earth" /\ task_type = "Network" THEN "Earth blocks air"
            ELSE IF elem = "Air" /\ task_type = "System" THEN "Air disrupts earth"
            ELSE IF elem = "Fire" /\ task_type = "MemoryHeavy" THEN "Fire evaporates water"
            ELSE "Elemental opposition"
    IN  IF F64Less(influence, F64_0_0) THEN [rule |-> "RETROGRADE", opposition |-> ""]
        ELSE IF ~F64Less(F64_0_7, boost) THEN [rule |-> "DEBUFFED", opposition |-> opposition]
        ELSE IF F64Less(F64_1_3, boost) THEN [rule |-> "COSMICALLY BLESSED", opposition |-> ""]
        ELSE IF F64Less(F64_1_1, boost) THEN [rule |-> "enhanced", opposition |-> ""]
        ELSE [rule |-> "neutral", opposition |-> ""]

\* create_reasoning: the rule chosen and, for a debuff, its flavor line
create_reasoning(task_type, planet_pos, influence, boost) ==
    LET elem == element(planet_pos.sign)
        opposition ==
            IF elem = "Water" /\ task_type = "CpuIntensive" THEN "Water dampens fire"
            ELSE IF elem = "Earth" /\ task_type = "Network" THEN "Earth blocks air"
            ELSE IF elem = "Air" /\ task_type = "System" THEN "Air disrupts earth"
            ELSE IF elem = "Fire" /\ task_type = "MemoryHeavy" THEN "Fire evaporates water"
            ELSE "Elemental opposition"
    IN  IF F64Less(influence, F64_0_0) THEN [rule |-> "RETROGRADE", opposition |-> ""]
        ELSE IF F64Less(boost, F64_0_7) THEN [rule |-> "DEBUFFED", opposition |-> opposition]
        ELSE IF F64Less(F64_1_3, boost) THEN [rule |-> "COSMICALLY BLESSED", opposition |-> ""]
        ELSE IF F64Less(F64_1_1, boost) THEN [rule |-> "enhanced", opposition |-> ""]
        ELSE [rule |-> "neutral", opposition |-> ""]

\* the SchedulingDecision of the early return for a critical task
CriticalDecision ==
    [priority |-> 1000, reasoning |-> [rule |-> "CRITICAL", opposition |-> ""],
     planetary_influence |-> F64_1_0, element_boost |-> F64_2_0]

\* the SchedulingDecision of schedule_task for a classified task
TaskDecision(positions, task_type) ==
    LET planet_pos          == FindPlanet(positions, ruling_planet(task_type))
        planetary_influence == calculate_planetary_influence(planet_pos)
        element_boost       ==
            apply_moon_phase(positions, task_type,
                             calculate_element_boost(positions, task_type))
    IN  [priority |-> task_priority(task_type, planetary_influence, element_boost),
         reasoning |-> create_reasoning(task_type, planet_pos,
                                        planetary_influence, element_boost),
         planetary_influence |-> planetary_influence,
         element_boost |-> element_boost]

\* get_cosmic_weather passing the Fire/Water clash to the Network line
CosmicWeather_net_fire_water(positions) ==
    LET count(e) == Cardinality({i \in 1..Len(positions) :
                                    element(positions[i].sign) = e})
        fire_count  == count("Fire")
        earth_count == count("Earth")
        air_count   == count("Air")
        water_count == count("Water")
        fire_water_clash == fire_count >= 2 /\ water_count >= 2
        earth_air_clash  == earth_count >= 2 /\ air_count >= 2
        task_status(planet, ideal, opposed, clash) ==
            LET e == element(FindPlanet(positions, planet).sign)
            IN  IF e = ideal /\ clash THEN "BOOSTED but CONTESTED"
                ELSE IF e = ideal THEN "BOOSTED"
                ELSE IF e = opposed THEN "DEBUFFED"
                ELSE "Neutral"
    IN  [fire_count |-> fire_count, earth_count |-> earth_count,
         air_count |-> air_count, water_count |-> water_count,
         cpu    |-> task_status("Mars", "Fire", "Water", fire_water_clash),
         net    |-> task_status("Mercury", "Air", "Earth", fire_water_clash),
         memory |-> task_status("Jupiter", "Water", "Fire", fire_water_clash),
         system |-> task_status("Saturn", "Earth", "Air", earth_air_clash),
         fire_water_tension |-> fire_count >= 2 /\ water_count >= 2,
         earth_air_tension  |-> earth_count >= 2 /\ air_count >= 2,
         at_peace |-> ~(fire_count >= 2 /\ water_count >= 2)
                      /\ ~(earth_count >= 2 /\ air_count >= 2)]

\* the guidance part of get_cosmic_weather
CosmicWeather(positions) ==
    LET count(e) == Cardinality({i \in 1..Len(positions) :
                                    element(positions[i].sign) = e})
        fire_count  == count("Fire")
        earth_count == count("Earth")
        air_count   == count("Air")
        water_count == count("Water")
        fire_water_clash == fire_count >= 2 /\ water_count >= 2
        earth_air_clash  == earth_count >= 2 /\ air_count >= 2
        task_status(planet, ideal, opposed, clash) ==
            LET e == element(FindPlanet(positions, planet).sign)
            IN  IF e = ideal /\ clash THEN "BOOSTED but CONTESTED"
                ELSE IF e = ideal THEN "BOOSTED"
                ELSE IF e = opposed THEN "DEBUFFED"
                ELSE "Neutral"
    IN  [fire_count |-> fire_count, earth_count |-> earth_count,
         air_count |-> air_count, water_count |-> water_count,
         cpu    |-> task_status("Mars", "Fire", "Water", fire_water_clash),
         net    |-> task_status("Mercury", "Air", "Earth", earth_air_clash),
         memory |-> task_status("Jupiter", "Water", "Fire", fire_water_clash),
         system |-> task_status("Saturn", "Earth", "Air", earth_air_clash),
         fire_water_tension |-> fire_count >= 2 /\ water_count >= 2,
         earth_air_tension  |-> earth_count >= 2 /\ air_count >= 2,
         at_peace |-> ~(fire_count >= 2 /\ water_count >= 2)
                      /\ ~(earth_count >= 2 /\ air_count >= 2)]

(***************************************************************************)
(* Dispatch loop (main.rs): the time slice of a dequeued task.             *)
(***************************************************************************)
\* a / d for a whole divisor d, as `a / 1000.0`: the exact quotient rounded
\* once; a non-zero remainder is kept as a sticky low bit
F64DivWhole(a, d) ==
    IF a.mant = <<>> THEN a
    ELSE LET q == BigDivRem(BigShl(a.mant, 70), d)
         IN  F64Round(a.neg, BigAddC(q.q, q.q, IF q.r = 0 THEN 0 ELSE 1),
                      a.exp - 71)

\* f64::clamp: `if self < min { min } else if self > max { max } else { self }`
F64Clamp(a, min, max) ==
    IF F64Less(a, min) THEN min ELSE IF F64Less(max, a) THEN max ELSE a

\* `x as u64`: truncation toward zero; the slices of this model stay below
\* the cap of F64AsU32, where the two casts agree
F64AsU64(a) == F64AsU32(a)

F64_0_1 == F64Lit(FALSE, 1, 10)

F64_0_5 == F64Lit(FALSE, 5, 10)

\* Opts of the command line, the fields the dispatch loop reads
DefaultOpts == [slice_us |-> 5000, slice_us_min |-> 500, no_retrograde |-> FALSE]

\* `(f64::from(decision.priority) / 1000.0).clamp(0.1, 1.0)`
priority_factor(decision) ==
    F64Clamp(F64DivWhole(F64FromInt(decision.priority), 1000), F64_0_1, F64_1_0)

\* slice_ns before the retrograde penalty
base_slice_ns(opts, decision) ==
    LET base_slice == F64FromInt(opts.slice_us * 1000)
        min_slice  == F64FromInt(opts.slice_us_min * 1000)
    IN  F64AsU64(F64Add(min_slice,
                        F64Mul(F64Sub(base_slice, min_slice),
                               priority_factor(decision))))

\* the slice with the penalty falling on a debuffed task instead of a
\* retrograde one
slice_ns_penalize_debuff(opts, decision) ==
    LET slice == base_slice_ns(opts, decision)
    IN  IF ~opts.no_retrograde /\ F64Less(decision.element_boost, F64_1_0)
        THEN F64AsU64(F64Mul(F64FromInt(slice), F64_0_5))
        ELSE slice

\* dispatched_task.slice_ns of dispatch_tasks
slice_ns(opts, decision) ==
    LET slice == base_slice_ns(opts, decision)
    IN  IF ~opts.no_retrograde /\ F64Less(decision.planetary_influence, F64_0_0)
        THEN F64AsU64(F64Mul(F64FromInt(slice), F64_0_5))
        ELSE slice

(***************************************************************************)
(* The engine as a state machine.  A call is one step: it sets `call` and  *)
(* `ret`; the caller then takes the result (Return) before the next call,  *)
(* at most one request being in flight at a time.                          *)
(***************************************************************************)
VARIABLES
    classifier,           \* AstrologicalScheduler.classifier: [hash_seed]
    planetary_cache,      \* None or [time, positions]
    cache_duration_secs,  \* AstrologicalScheduler.cache_duration_secs
    call,                 \* the call in flight and its locals
    ret,                  \* what the call in flight returned
    mark,                 \* history: an earlier schedule_task call (window checks)
    probe                 \* a pure function applied to drawn inputs

vars == <<classifier, planetary_cache, cache_duration_secs, call, ret, mark, probe>>

\* bounds of the inputs
MaxTime == 2

MaxTtl == 1

Moments == 0..MaxTime

Pids == {1, 500}

Comms == {"gcc", "sshd", "bash", "systemd", "postgres", "xorg"}

\* sample longitudes: one per element, with both ends of the circle
PlanetLons == {0, 45 * MILLI, 200 * MILLI, 359999}

LuminaryLons == {0, 45 * MILLI, 100 * MILLI, 200 * MILLI, 359999}

\* the daily motion of an ordinary body: one degree forward or backward
DailyMotions == {MILLI, -MILLI}

SkyBase ==
    [today    |-> [p \in Planet |-> 0],
     tomorrow |-> [p \in OrdinaryPlanet |-> MILLI]]

\* the answers of the solver: one ordinary body, or the two luminaries,
\* anywhere on the circle, the other bodies at the base position
Skies ==
    { [today    |-> [SkyBase.today EXCEPT ![p] = l],
       tomorrow |-> [SkyBase.tomorrow EXCEPT ![p] = rem_euclid_360(l + m)]]
        : p \in OrdinaryPlanet, l \in PlanetLons, m \in DailyMotions }
    \cup
    { [today    |-> [SkyBase.today EXCEPT !["Sun"] = s, !["Moon"] = m],
       tomorrow |-> SkyBase.tomorrow]
        : s \in LuminaryLons, m \in LuminaryLons }

NoCall ==
    [op |-> "idle", comm |-> "", pid |-> 0, now |-> 0, task_type |-> "None",
     queries |-> 0]

NoReturn == [kind |-> "none"]

NoMark == [now |-> -1, cache |-> None, late |-> FALSE]

NoProbe == [fn |-> "none"]

\* AstrologicalScheduler::new
Init ==
    /\ classifier \in [hash_seed : HashSeeds]
    /\ planetary_cache = None
    /\ cache_duration_secs \in 0..MaxTtl
    /\ call = NoCall
    /\ ret = NoReturn
    /\ mark = NoMark
    /\ probe = NoProbe

\* classify_scan of every instance and identifier, evaluated once
ClassifyTable ==
    [s \in HashSeeds |-> [c \in Comms |-> classify_scan(IterationOrder(s), c)]]

\* TaskClassifier::classify on the instance of the engine
classify(self, comm) == ClassifyTable[self.hash_seed][comm]

\* the answers of the solver with one ordinary body anywhere on the circle
OrdinarySkies(p) ==
    { [today    |-> [SkyBase.today EXCEPT ![p] = l],
       tomorrow |-> [SkyBase.tomorrow EXCEPT ![p] = rem_euclid_360(l + m)]]
        : l \in PlanetLons, m \in DailyMotions }

\* the answers of the solver with the Moon in each element at each of the
\* eight phases, 20 degrees into the phase
LunarSkies ==
    { [today    |-> [SkyBase.today EXCEPT
                        !["Moon"] = m,
                        !["Sun"] = rem_euclid_360(m - (45 * k + 20) * MILLI + FULL_CIRCLE)],
       tomorrow |-> SkyBase.tomorrow]
        : m \in PlanetLons, k \in 0..7 }

\* the snapshots the builder can return
Snapshots == {calculate_planetary_positions(sky) : sky \in Skies \cup LunarSkies}

\* TaskDecision of every snapshot and task type, evaluated once
DecisionTable ==
    [positions \in Snapshots |->
        [t \in TaskType \ {"Critical"} |-> TaskDecision(positions, t)]]

\* the cache after get_planetary_positions; sky is what the solver answers
\* if it is queried
get_planetary_positions(now, sky) ==
    IF needs_refresh(planetary_cache, now, cache_duration_secs)
    THEN [time |-> now, positions |-> calculate_planetary_positions(sky)]
    ELSE planetary_cache

\* the number of queries get_planetary_positions sends to the solver
SolverQueries(now) ==
    IF needs_refresh(planetary_cache, now, cache_duration_secs)
    THEN Len(calculate_planetary_positions_queries)
    ELSE 0

\* the solver is queried only by a refresh
SolverQueried(now, sky) ==
    needs_refresh(planetary_cache, now, cache_duration_secs) \/ sky = SkyBase

\* schedule_task dropping the cache when it serves a critical task
schedule_task_critical_clears_cache(comm, pid, now, sky) ==
    /\ call = NoCall
    /\ IF is_critical(pid)
       THEN /\ sky = SkyBase
            /\ call' = [op |-> "schedule_task", comm |-> comm, pid |-> pid,
                        now |-> now, task_type |-> "Critical",
                        queries |-> 0]
            /\ ret' = [kind |-> "decision", decision |-> CriticalDecision]
            /\ planetary_cache' = None
       ELSE LET task_type == classify(classifier, comm)
            IN  /\ SolverQueried(now, sky)
                /\ planetary_cache' = get_planetary_positions(now, sky)
                /\ call' = [op |-> "schedule_task", comm |-> comm, pid |-> pid,
                            now |-> now, task_type |-> task_type,
                            queries |-> SolverQueries(now)]
                /\ ret' = [kind |-> "decision",
                           decision |-> DecisionTable[planetary_cache'.positions][task_type]]
    /\ UNCHANGED <<classifier, cache_duration_secs, probe>>

\* schedule_task fetching the snapshot before the test for a critical task
schedule_task_critical_after_fetch(comm, pid, now, sky) ==
    /\ call = NoCall
    /\ SolverQueried(now, sky)
    /\ planetary_cache' = get_planetary_positions(now, sky)
    /\ IF is_critical(pid)
       THEN /\ call' = [op |-> "schedule_task", comm |-> comm, pid |-> pid,
                        now |-> now, task_type |-> "Critical",
                        queries |-> SolverQueries(now)]
            /\ ret' = [kind |-> "decision", decision |-> CriticalDecision]
       ELSE LET task_type == classify(classifier, comm)
            IN  /\ call' = [op |-> "schedule_task", comm |-> comm, pid |-> pid,
                            now |-> now, task_type |-> task_type,
                            queries |-> SolverQueries(now)]
                /\ ret' = [kind |-> "decision",
                           decision |-> DecisionTable[planetary_cache'.positions][task_type]]
    /\ UNCHANGED <<classifier, cache_duration_secs, probe>>

\* AstrologicalScheduler::schedule_task
schedule_task(comm, pid, now, sky) ==
    /\ call = NoCall
    /\ IF is_critical(pid)
       THEN /\ sky = SkyBase
            /\ call' = [op |-> "schedule_task", comm |-> comm, pid |-> pid,
                        now |-> now, task_type |-> "Critical",
                        queries |-> 0]
            /\ ret' = [kind |-> "decision", decision |-> CriticalDecision]
            /\ UNCHANGED planetary_cache
       ELSE LET task_type == classify(classifier, comm)
            IN  /\ SolverQueried(now, sky)
                /\ planetary_cache' = get_planetary_positions(now, sky)
                /\ call' = [op |-> "schedule_task", comm |-> comm, pid |-> pid,
                            now |-> now, task_type |-> task_type,
                            queries |-> SolverQueries(now)]
                /\ ret' = [kind |-> "decision",
                           decision |-> DecisionTable[planetary_cache'.positions][task_type]]
    /\ UNCHANGED <<classifier, cache_duration_secs, probe>>

\* AstrologicalScheduler::get_cosmic_weather
get_cosmic_weather(now, sky) ==
    /\ call = NoCall
    /\ SolverQueried(now, sky)
    /\ planetary_cache' = get_planetary_positions(now, sky)
    /\ call' = [op |-> "get_cosmic_weather", comm |-> "", pid |-> 0,
                now |-> now, task_type |-> "None",
                queries |-> SolverQueries(now)]
    /\ ret' = [kind |-> "report", report |-> CosmicWeather(planetary_cache'.positions)]
    /\ UNCHANGED <<classifier, cache_duration_secs, probe>>

\* the caller takes the result (main.rs: dispatch_tasks, print_cosmic_weather)
Return ==
    /\ call # NoCall
    /\ call' = NoCall
    /\ ret' = NoReturn
    /\ UNCHANGED <<classifier, planetary_cache, cache_duration_secs, probe>>

Next ==
    \/ \E comm \in Comms, pid \in Pids, now \in Moments, sky \in Skies :
          schedule_task(comm, pid, now, sky) /\ UNCHANGED mark
    \/ \E now \in Moments, sky \in Skies :
          get_cosmic_weather(now, sky) /\ UNCHANGED mark
    \/ Return /\ UNCHANGED mark

Spec == Init /\ [][Next]_vars

(***************************************************************************)
(* Vocabulary of the properties, written from the documented contract and  *)
(* independently of the operators above.                                   *)
(***************************************************************************)
IsDecide == call.op = "schedule_task"

IsPrivileged == IsDecide /\ call.pid = 1

IsOrdinaryDecide == IsDecide /\ call.pid # 1

IsSnapshotRequest == IsOrdinaryDecide \/ call.op = "get_cosmic_weather"

Categories ==
    {"Network", "CpuIntensive", "Desktop", "MemoryHeavy", "System", "Interactive"}

GoverningBody ==
    [c \in Categories |->
        CASE c = "Network" -> "Mercury" [] c = "CpuIntensive" -> "Mars"
          [] c = "Desktop" -> "Venus"   [] c = "MemoryHeavy" -> "Jupiter"
          [] c = "System" -> "Saturn"   [] c = "Interactive" -> "Moon"]

\* the record of a body in the cached snapshot
RecordOf(body) ==
    LET i == CHOOSE k \in 1..Len(planetary_cache.positions) :
                 planetary_cache.positions[k].planet = body
    IN  planetary_cache.positions[i]

\* the record the decision in flight was scored from
GoverningRecord == RecordOf(GoverningBody[call.task_type])

\* element of a longitude: band floor(L / 30), bands 0,4,8 Fire, 1,5,9
\* Earth, 2,6,10 Air, 3,7,11 Water
ElementAt(longitude) ==
    LET band == (longitude \div (30 * MILLI)) % 12
    IN  CASE band % 4 = 0 -> "Fire" [] band % 4 = 1 -> "Earth"
          [] band % 4 = 2 -> "Air"  [] band % 4 = 3 -> "Water"

BaseWeight ==
    [c \in Categories |->
        CASE c = "System" -> 200 [] c = "Interactive" -> 150
          [] c = "Desktop" -> 120 [] c = "CpuIntensive" -> 100
          [] c = "Network" -> 100 [] c = "MemoryHeavy" -> 80]

\* element weights, in tenths
WeightTenths ==
    [e \in Element |->
        CASE e = "Fire" -> 13 [] e = "Earth" -> 11 [] e = "Air" -> 12
          [] e = "Water" -> 10]

\* the affinity matrix, in hundredths
MatrixHundredths(e, c) ==
    IF <<e, c>> \in {<<"Fire", "CpuIntensive">>, <<"Air", "Network">>} THEN 150
    ELSE IF <<e, c>> = <<"Earth", "System">> THEN 140
    ELSE IF <<e, c>> \in {<<"Water", "MemoryHeavy">>, <<"Air", "Desktop">>,
                          <<"Water", "Desktop">>} THEN 130
    ELSE IF <<e, c>> \in {<<"Water", "CpuIntensive">>, <<"Earth", "Network">>} THEN 60
    ELSE IF <<e, c>> \in {<<"Air", "System">>, <<"Fire", "MemoryHeavy">>} THEN 70
    ELSE 100

\* the lunar modifiers, in hundredths
LunarHundredths(phase) ==
    CASE phase = "FullMoon" -> 140 [] phase = "WaxingGibbous" -> 120
      [] phase = "FirstQuarter" -> 110 [] phase = "WaxingCrescent" -> 105
      [] phase = "NewMoon" -> 80 [] phase = "WaningGibbous" -> 95
      [] phase = "LastQuarter" -> 90 [] phase = "WaningCrescent" -> 85

\* the f64 of a number of hundredths, for 0.00 .. 2.00
Hundredths == [h \in 0..200 |-> F64Lit(FALSE, h, 100)]

MinusOne == F64Round(TRUE, <<1>>, 0)

(***************************************************************************)
(* C1..C6: decisions.                                                      *)
(***************************************************************************)
\* C1: a schedule_task call with pid 1 returns priority 1000, influence 1.0
\* and boost 2.0 for every identifier, moment and cache state.
C1_CriticalBypass ==
    IsPrivileged =>
        /\ ret.decision.priority = 1000
        /\ ret.decision.planetary_influence = Hundredths[100]
        /\ ret.decision.element_boost = Hundredths[200]

\* a privileged call answered over a stale cache whose only ordinary record
\* out of the base position is retrograde
C1_Witness ==
    /\ IsPrivileged
    /\ planetary_cache # None
    /\ call.now - planetary_cache.time > cache_duration_secs
    /\ RecordOf("Saturn").retrograde
    /\ ret.decision.priority = 1000

\* C2: every decision schedule_task returns has priority >= 1.
C2_PriorityFloor ==
    ret.kind = "decision" => ret.decision.priority >= 1

\* a decision scored from a retrograde governing body
C2_Witness ==
    /\ IsOrdinaryDecide
    /\ GoverningRecord.retrograde
    /\ ret.decision.priority >= 1

\* C3: with the governing body retrograde the priority is floor(base * 0.3),
\* whatever element, boost and lunar phase; gcc then gets 30.
C3_RetrogradePenalty ==
    (IsOrdinaryDecide /\ GoverningRecord.retrograde) =>
        /\ ret.decision.priority = (BaseWeight[call.task_type] * 3) \div 10
        /\ ret.decision.priority =
               CASE call.task_type = "System" -> 60
                 [] call.task_type = "Interactive" -> 45
                 [] call.task_type = "Desktop" -> 36
                 [] call.task_type = "CpuIntensive" -> 30
                 [] call.task_type = "Network" -> 30
                 [] call.task_type = "MemoryHeavy" -> 24
        /\ call.comm = "gcc" => ret.decision.priority = 30

\* gcc scored while Mars is retrograde in a Fire band (boost 1.5 ignored)
C3_Witness ==
    /\ IsOrdinaryDecide
    /\ call.comm = "gcc"
    /\ call.pid = 500
    /\ RecordOf("Mars").retrograde
    /\ ElementAt(RecordOf("Mars").longitude) = "Fire"
    /\ ret.decision.priority = 30

\* the boost of the contract for the decision in flight, in ten-thousandths
ContractBoost ==
    MatrixHundredths(ElementAt(GoverningRecord.longitude), call.task_type)
    * (IF call.task_type = "Interactive"
       THEN LunarHundredths(RecordOf("Moon").moon_phase) ELSE 100)

\* C4: with the governing body direct the priority is
\* max(1, floor(base * influence * boost)); gcc with Mars direct in a Fire
\* band gets boost 1.5, influence 1.3 and priority 195.
C4_DirectFormula ==
    (IsOrdinaryDecide /\ ~GoverningRecord.retrograde) =>
        /\ ret.decision.priority =
               Max(1, (BaseWeight[call.task_type]
                       * WeightTenths[ElementAt(GoverningRecord.longitude)]
                       * ContractBoost) \div 100000)
        /\ (call.comm = "gcc" /\ ElementAt(RecordOf("Mars").longitude) = "Fire") =>
               /\ ret.decision.element_boost = Hundredths[150]
               /\ ret.decision.planetary_influence = Hundredths[130]
               /\ ret.decision.priority = 195

\* C5: the boost is the matrix value of (element, category), multiplied by
\* the lunar modifier of the Moon's phase iff the category is Interactive.
C5_AffinityBoost ==
    IsOrdinaryDecide =>
        LET m == MatrixHundredths(ElementAt(GoverningRecord.longitude),
                                  call.task_type)
        IN  ret.decision.element_boost =
                IF call.task_type = "Interactive"
                THEN F64Mul(Hundredths[m],
                            Hundredths[LunarHundredths(RecordOf("Moon").moon_phase)])
                ELSE Hundredths[m]

\* a Desktop task scored with Venus in a Water band under a Full Moon
C5_Witness ==
    /\ IsOrdinaryDecide
    /\ call.task_type = "Desktop"
    /\ ElementAt(RecordOf("Venus").longitude) = "Water"
    /\ ret.decision.element_boost = Hundredths[130]

\* an Interactive task scored under a Full Moon
C5_WitnessLunar ==
    /\ IsOrdinaryDecide
    /\ call.task_type = "Interactive"
    /\ RecordOf("Moon").moon_phase = "FullMoon"
    /\ ret.decision.element_boost = Hundredths[140]

WindowComms == {"gcc", "bash"}

WindowSkies ==
    { SkyBase,
      [today    |-> [SkyBase.today EXCEPT !["Mars"] = 200 * MILLI],
       tomorrow |-> [SkyBase.tomorrow EXCEPT !["Mars"] = 199 * MILLI]] }

\* the history step that goes with a call
MarkStep ==
    IF mark = NoMark
    THEN \/ mark' = mark
         \/ /\ call'.op = "schedule_task" /\ call'.pid # 1
            /\ mark' = [now |-> call'.now, cache |-> planetary_cache',
                        late |-> FALSE]
    ELSE mark' = [mark EXCEPT !.late =
                     \/ mark.late
                     \/ /\ \/ call'.op = "get_cosmic_weather"
                           \/ call'.op = "schedule_task" /\ call'.pid # 1
                        /\ call'.now - mark.cache.time > cache_duration_secs]

NextWindow ==
    \/ \E comm \in WindowComms, pid \in Pids, now \in Moments, sky \in WindowSkies :
          schedule_task(comm, pid, now, sky) /\ MarkStep
    \/ \E now \in Moments, sky \in WindowSkies :
          get_cosmic_weather(now, sky) /\ MarkStep
    \/ Return /\ UNCHANGED mark

SpecWindow == Init /\ [][NextWindow]_vars

\* the marked call and the call in flight are at moments t and t + D,
\* 0 <= D <= ttl
WithinWindow ==
    /\ mark # NoMark
    /\ IsOrdinaryDecide
    /\ call.now - mark.now >= 0
    /\ call.now - mark.now <= cache_duration_secs

\* C7 as stated: any two ordinary decide calls at moments t and t + D,
\* 0 <= D <= ttl, use the identical snapshot (records and capture moment).
C7_WindowOriginal == WithinWindow => planetary_cache = mark.cache

\* C7 amended: they use the identical snapshot provided no snapshot request
\* from the first call on, the second call included, comes more than ttl
\* after the capture moment of the snapshot the first call used.
C7_WindowConsistency ==
    (WithinWindow /\ ~mark.late) => planetary_cache = mark.cache

\* two calls a full time to live apart served from one snapshot
C7_Witness ==
    /\ WithinWindow
    /\ ~mark.late
    /\ cache_duration_secs >= 1
    /\ call.now - mark.now = cache_duration_secs
    /\ planetary_cache = mark.cache

\* C8: a snapshot request at `now` leaves the cache entry unchanged when
\* now - captured_at <= ttl, and otherwise replaces the whole entry by a
\* snapshot built for now with captured_at = now; nothing else changes it.
C8_Step ==
    IF \/ call'.op = "get_cosmic_weather"
       \/ call'.op = "schedule_task" /\ call'.pid # 1
    THEN IF planetary_cache # None
            /\ call'.now - planetary_cache.time <= cache_duration_secs
         THEN planetary_cache' = planetary_cache
         ELSE /\ planetary_cache'.time = call'.now
              /\ planetary_cache'.positions \in Snapshots
    ELSE planetary_cache' = planetary_cache

C8_CacheReuse == [][C8_Step]_vars

\* a request served from a snapshot captured at an earlier moment
C8_Witness ==
    /\ IsSnapshotRequest
    /\ planetary_cache.time < call.now
    /\ call.now - planetary_cache.time <= cache_duration_secs

\* a request that replaced a snapshot: the entry carries the moment of the
\* request, which is later than the first moment
C8_WitnessRefresh ==
    /\ IsSnapshotRequest
    /\ cache_duration_secs = 0
    /\ planetary_cache.time = call.now
    /\ call.now = MaxTime

\* C9 as stated: the cache is empty at construction, populated after the
\* first decision request, and never empty again once populated.
C9_LifecycleOriginal ==
    /\ planetary_cache = None
    /\ [][/\ planetary_cache # None => planetary_cache' # None
          /\ call'.op = "schedule_task" => planetary_cache' # None]_vars

\* C9 amended: the cache is empty at construction, populated by the first
\* decide call with pid # 1 or conditions report (a decide call with pid 1
\* leaves it as it is), and never empty again once populated.
C9_Lifecycle ==
    /\ planetary_cache = None
    /\ [][/\ planetary_cache # None => planetary_cache' # None
          /\ (\/ call'.op = "get_cosmic_weather"
              \/ call'.op = "schedule_task" /\ call'.pid # 1)
                => planetary_cache' # None
          /\ (call'.op = "schedule_task" /\ call'.pid = 1)
                => planetary_cache' = planetary_cache]_vars

\* a privileged call on a populated cache, which stays populated
C9_Witness ==
    /\ IsPrivileged
    /\ planetary_cache # None
    /\ planetary_cache.time = MaxTime

(***************************************************************************)
(* C10: the direction rule of is_retrograde, applied to drawn longitudes.  *)
(***************************************************************************)
RetroLons ==
    {0, 10 * MILLI, 90 * MILLI, 100 * MILLI, 170 * MILLI, 180 * MILLI,
     190 * MILLI, 200 * MILLI, 270 * MILLI, 300 * MILLI, 350 * MILLI, 359999}

InitRetro ==
    /\ classifier \in [hash_seed : HashSeeds]
    /\ planetary_cache = None
    /\ cache_duration_secs \in 0..MaxTtl
    /\ call = NoCall
    /\ ret = NoReturn
    /\ mark = NoMark
    /\ probe \in [fn : {"is_retrograde"}, lon_today : RetroLons,
                  lon_tomorrow : RetroLons, done : {FALSE}, result : {FALSE}]

\* is_retrograde applied to the two answers of the solver
probe_is_retrograde ==
    /\ probe.fn = "is_retrograde"
    /\ ~probe.done
    /\ probe' = [probe EXCEPT !.done = TRUE,
                    !.result = is_retrograde(probe.lon_today, probe.lon_tomorrow)]
    /\ UNCHANGED <<classifier, planetary_cache, cache_duration_secs, call, ret, mark>>

NextRetro == probe_is_retrograde

SpecRetro == InitRetro /\ [][NextRetro]_vars

ProbeDelta == probe.lon_tomorrow - probe.lon_today

RetroDone == probe.fn = "is_retrograde" /\ probe.done

C11_SnapshotWellFormed ==
    planetary_cache # None =>
        LET ps == planetary_cache.positions
        IN  /\ Len(ps) = 7
            /\ \A body \in Planet :
                   Cardinality({i \in 1..Len(ps) : ps[i].planet = body}) = 1
            /\ \A i \in 1..Len(ps) :
                   /\ ps[i].longitude >= 0
                   /\ ps[i].longitude < 360 * MILLI
                   /\ ps[i].sign = ZodiacSign[(ps[i].longitude \div (30 * MILLI)) + 1]
                   /\ ps[i].planet \in {"Sun", "Moon"} => ~ps[i].retrograde
                   /\ ps[i].planet = "Moon" =>
                          \E k \in 1..8 : ps[i].moon_phase = MoonPhase[k]
                   /\ ps[i].planet # "Moon" => ps[i].moon_phase = NoPhase
            /\ \A c \in Categories :
                   \E i \in 1..Len(ps) : ps[i].planet = GoverningBody[c]

\* a snapshot with the Sun in the last band and the Moon opposite to it
C11_Witness ==
    /\ planetary_cache # None
    /\ RecordOf("Sun").longitude = 359999
    /\ RecordOf("Sun").sign = "Pisces"
    /\ RecordOf("Moon").moon_phase = "FullMoon"
    /\ RecordOf("Sun").moon_phase = NoPhase

(***************************************************************************)
(* C12..C16: the classifier, applied to drawn identifiers.                 *)
(*                                                                         *)
(* SpecClassify draws an identifier and a pid and lets two engine          *)
(* instances serve them from the same snapshot: the instance of the        *)
(* engine (`classifier`) and a second one created with the seed `other`.   *)
(***************************************************************************)
ClassifyPids == {0, 1, 1000}

\* identifiers that are no table pattern: names of kernel threads, unknown
\* programs, names holding patterns of several task types, browsers
OtherComms ==
    {"kworker/0:1", "kworker/1:0H", "totally_unknown_xyz", "unknown_process",
     "my_custom_app", "my-nginx", "initrd", "sshfs", "firefox", "chrome",
     "chromium", "firefox-esr", "google-chrome", "chromium-code",
     "chrome-bash"}

ClassifyComms == {PatternTable[i][1] : i \in 1..Len(PatternTable)} \cup OtherComms

\* the snapshot both instances hold
BaseSnapshot == calculate_planetary_positions(SkyBase)

NoDecision == [priority |-> 0]

InitClassify ==
    /\ classifier \in [hash_seed : HashSeeds]
    /\ planetary_cache = None
    /\ cache_duration_secs \in 0..MaxTtl
    /\ call = NoCall
    /\ ret = NoReturn
    /\ mark = NoMark
    /\ probe \in [fn : {"classify"}, comm : ClassifyComms, pid : ClassifyPids,
                  other : HashSeeds, done : {FALSE}, task_type : {"None"},
                  other_task_type : {"None"}, critical : {FALSE},
                  decision : {NoDecision}, other_decision : {NoDecision}]

\* the decision of schedule_task on an instance that holds BaseSnapshot
DecisionOf(task_type, pid) ==
    IF is_critical(pid) THEN CriticalDecision
    ELSE DecisionTable[BaseSnapshot][task_type]

\* classify, is_critical and schedule_task on the two instances
probe_classify ==
    /\ probe.fn = "classify"
    /\ ~probe.done
    /\ LET task_type == classify_scan(IterationOrder(classifier.hash_seed), probe.comm)
           other_task_type == classify_scan(IterationOrder(probe.other), probe.comm)
       IN  probe' = [probe EXCEPT !.done = TRUE,
                        !.task_type = task_type,
                        !.other_task_type = other_task_type,
                        !.critical = is_critical(probe.pid),
                        !.decision = DecisionOf(task_type, probe.pid),
                        !.other_decision = DecisionOf(other_task_type, probe.pid)]
    /\ UNCHANGED <<classifier, planetary_cache, cache_duration_secs, call, ret, mark>>

NextClassify == probe_classify

SpecClassify == InitClassify /\ [][NextClassify]_vars

ClassifyDone == probe.fn = "classify" /\ probe.done

\* the static table: pattern -> category
PatternsOf(c) == {PatternTable[i][1] : i \in {k \in 1..Len(PatternTable) : PatternTable[k][2] = c}}

IsBrowser(comm) ==
    \E b \in {"firefox", "chrome", "chromium"} : Contains(comm, b)

IsPattern(comm) == \E c \in Categories : comm \in PatternsOf(c)

\* the categories of the table patterns an identifier contains
ContainedCategories(comm) ==
    {c \in Categories : \E p \in PatternsOf(c) : Contains(comm, p)}

\* C12: an identifier equal to a table pattern gets that pattern's category,
\* whatever other patterns it contains: rustc is CPU-bound, systemd System,
\* bash Interactive.
C12_ExactMatchFirst ==
    ClassifyDone =>
        /\ \A c \in Categories : probe.comm \in PatternsOf(c) => probe.task_type = c
        /\ probe.comm = "rustc" => probe.task_type = "CpuIntensive"
        /\ probe.comm = "systemd" => probe.task_type = "System"
        /\ probe.comm = "bash" => probe.task_type = "Interactive"

\* bash classified by the instance whose scan would meet "sh" and "as" first
C12_Witness ==
    /\ ClassifyDone
    /\ probe.comm = "bash"
    /\ classifier.hash_seed = 2
    /\ probe.task_type = "Interactive"

\* C13: an identifier without a browser name that equals no pattern gets the
\* category of a pattern it contains, hence the one category when all the
\* contained patterns agree, and Interactive when it contains none.
C13_FallbackDefault ==
    (ClassifyDone /\ ~IsBrowser(probe.comm) /\ ~IsPattern(probe.comm)) =>
        /\ ContainedCategories(probe.comm) = {} => probe.task_type = "Interactive"
        /\ ContainedCategories(probe.comm) # {}
              => probe.task_type \in ContainedCategories(probe.comm)
        /\ probe.comm = "kworker/0:1" => probe.task_type = "System"
        /\ probe.comm = "totally_unknown_xyz" => probe.task_type = "Interactive"

\* a pattern found inside the identifier, not at its start
C13_Witness ==
    /\ ClassifyDone
    /\ probe.comm = "my-nginx"
    /\ probe.task_type = "Network"

\* an identifier that contains no pattern
C13_WitnessDefault ==
    /\ ClassifyDone
    /\ probe.comm = "totally_unknown_xyz"
    /\ ContainedCategories(probe.comm) = {}
    /\ probe.task_type = "Interactive"

\* C14: an identifier that contains firefox, chrome or chromium is Network,
\* also when it contains table patterns of other categories.
C14_BrowserPrecedence ==
    (ClassifyDone /\ IsBrowser(probe.comm)) => probe.task_type = "Network"

\* a browser name next to a Memory-heavy pattern
C14_Witness ==
    /\ ClassifyDone
    /\ probe.comm = "chromium-code"
    /\ ContainedCategories(probe.comm) = {"MemoryHeavy"}
    /\ probe.task_type = "Network"

\* C15: classify never returns Critical (init is System), and a task is
\* critical iff its pid is 1, whatever its identifier.
C15_CriticalOnlyByPid ==
    ClassifyDone =>
        /\ probe.task_type # "Critical"
        /\ probe.comm = "init" => probe.task_type = "System"
        /\ probe.critical <=> probe.pid = 1
        /\ probe.decision.reasoning.rule = "CRITICAL" <=> probe.pid = 1

\* init as the identifier of a task that is not pid 1
C15_Witness ==
    /\ ClassifyDone
    /\ probe.comm = "init"
    /\ probe.pid = 1000
    /\ probe.task_type = "System"
    /\ ~probe.critical

\* C16: two engine instances given the same identifier, pid and snapshot
\* return the same category and the same decision.
C16_Determinism ==
    ClassifyDone =>
        /\ probe.pid # 1 => probe.task_type = probe.other_task_type
        /\ probe.decision = probe.other_decision

(***************************************************************************)
(* C17, C18: banding of binary64 longitudes.                               *)
(*                                                                         *)
(* A drawn longitude is whole + frac: a whole number of degrees plus       *)
(* nothing, plus or minus one power of two (the neighbourhood of a band    *)
(* edge at the resolution of binary64), or plus a number of thousandths.   *)
(***************************************************************************)
Fracs ==
    { [kind |-> "int", sgn |-> 0, bits |-> 0, m |-> 0],
      [kind |-> "eps", sgn |-> 1, bits |-> 48, m |-> 0],
      [kind |-> "eps", sgn |-> -1, bits |-> 48, m |-> 0],
      [kind |-> "eps", sgn |-> -1, bits |-> 46, m |-> 0],
      [kind |-> "eps", sgn |-> 1, bits |-> 47, m |-> 0],
      [kind |-> "eps", sgn |-> -1, bits |-> 60, m |-> 0],
      [kind |-> "eps", sgn |-> 1, bits |-> 60, m |-> 0],
      [kind |-> "milli", sgn |-> 0, bits |-> 0, m |-> 1],
      [kind |-> "milli", sgn |-> 0, bits |-> 0, m |-> 900],
      [kind |-> "milli", sgn |-> 0, bits |-> 0, m |-> 999] }

Abs(i) == IF i < 0 THEN -i ELSE i

\* the magnitude of whole * 2^bits + sgn
EpsMagnitude(whole, frac) ==
    LET w == BigShl(BigFromNat(Abs(whole)), frac.bits)
    IN  IF whole = 0 THEN <<1>>
        ELSE IF (whole > 0) = (frac.sgn > 0) THEN BigAdd(w, <<1>>)
        ELSE BigSub(w, <<1>>)

\* whole + frac is a binary64 value (a literal in thousandths stands for
\* the binary64 the compiler rounds it to)
Representable(whole, frac) ==
    frac.kind = "eps" => BigBitLen(EpsMagnitude(whole, frac)) <= F64_MANT_BITS

\* the binary64 value whole + frac
F64OfInput(whole, frac) ==
    CASE frac.kind = "int" -> F64FromInt(whole)
      [] frac.kind = "eps" ->
            F64Round(whole < 0 \/ (whole = 0 /\ frac.sgn < 0),
                     EpsMagnitude(whole, frac), -frac.bits)
      [] frac.kind = "milli" ->
            F64Lit(whole * 1000 + frac.m < 0, Abs(whole * 1000 + frac.m), 1000)

\* floor(whole + frac)
FloorOfInput(whole, frac) ==
    IF frac.kind = "eps" /\ frac.sgn < 0 THEN whole - 1 ELSE whole

BandWholes ==
    {-720, -390, -360, -330, -120, -31, -30, -1, 0, 29, 30, 59, 60, 120,
     329, 330, 359, 360, 389, 390, 719, 720}

BandTurns == {-2, -1, 1, 2}

InitBand ==
    /\ classifier \in [hash_seed : HashSeeds]
    /\ planetary_cache = None
    /\ cache_duration_secs \in 0..MaxTtl
    /\ call = NoCall
    /\ ret = NoReturn
    /\ mark = NoMark
    /\ probe \in [fn : {"from_longitude"}, whole : BandWholes, frac : Fracs,
                  k : BandTurns, done : {FALSE}, sign : {"None"},
                  shifted_sign : {"None"}]

\* ZodiacSign::from_longitude applied to L and to L + 360 k
probe_from_longitude ==
    /\ probe.fn = "from_longitude"
    /\ ~probe.done
    /\ probe' = [probe EXCEPT !.done = TRUE,
                    !.sign = ZodiacSign_from_longitude(
                                 F64OfInput(probe.whole, probe.frac)),
                    !.shifted_sign = ZodiacSign_from_longitude(
                                 F64OfInput(probe.whole + 360 * probe.k, probe.frac))]
    /\ UNCHANGED <<classifier, planetary_cache, cache_duration_secs, call, ret, mark>>

NextBand == probe_from_longitude

SpecBand == InitBand /\ [][NextBand]_vars

BandDone ==
    /\ probe.fn = "from_longitude" /\ probe.done
    /\ Representable(probe.whole, probe.frac)

\* band number floor((L mod 360) / 30)
BandNumber(whole, frac) == (FloorOfInput(whole, frac) % 360) \div 30

ProbeIs(whole, frac_kind, m) ==
    probe.whole = whole /\ probe.frac.kind = frac_kind /\ probe.frac.m = m

\* C17: for every longitude L, negative values and values >= 360 included,
\* from_longitude(L) is band floor((L mod 360) / 30); it is the same for L
\* and L + 360 k; and 0 is band 0, 30 band 1, 359.999 band 11, 360 band 0,
\* 390 band 1.
C17_ZodiacBanding ==
    BandDone =>
        /\ probe.sign = ZodiacSign[BandNumber(probe.whole, probe.frac) + 1]
        /\ Representable(probe.whole + 360 * probe.k, probe.frac)
              => probe.shifted_sign = probe.sign
        /\ ProbeIs(0, "int", 0) => probe.sign = ZodiacSign[1]
        /\ ProbeIs(30, "int", 0) => probe.sign = ZodiacSign[2]
        /\ ProbeIs(359, "milli", 999) => probe.sign = ZodiacSign[12]
        /\ ProbeIs(360, "int", 0) => probe.sign = ZodiacSign[1]
        /\ ProbeIs(390, "int", 0) => probe.sign = ZodiacSign[2]

\* the longitudes of the two luminaries: the Moon on the grid of thousandths,
\* the Sun at a whole degree or next to one
MoonWholes == {0, 10, 44, 45, 90, 100, 180, 200, 315, 359}

SunWholes == {0, 10, 45, 55, 100, 145, 225, 359}

MoonFracs == {f \in Fracs : f.kind = "int" \/ (f.kind = "milli" /\ f.m = 900)}

SunFracs == {f \in Fracs : f.kind # "milli"}

NoAngle == F64Zero

InitPhase ==
    /\ classifier \in [hash_seed : HashSeeds]
    /\ planetary_cache = None
    /\ cache_duration_secs \in 0..MaxTtl
    /\ call = NoCall
    /\ ret = NoReturn
    /\ mark = NoMark
    /\ probe \in { p \in [fn : {"moon_phase"}, moon_whole : MoonWholes,
                           moon_frac : MoonFracs, sun_whole : SunWholes,
                           sun_frac : SunFracs, done : {FALSE},
                           angle : {NoAngle}, phase : {"None"}] :
                      \* the solver answers lie in [0, 360)
                      /\ ~(p.sun_whole = 0 /\ p.sun_frac.sgn < 0)
                      /\ p.moon_frac.kind = "milli" => p.sun_frac.kind = "int" }

\* the lunar phase as calculate_planetary_positions derives it from the
\* longitudes of the Moon and the Sun
probe_moon_phase ==
    /\ probe.fn = "moon_phase"
    /\ ~probe.done
    /\ LET moon_lon_deg == F64OfInput(probe.moon_whole, probe.moon_frac)
           sun_lon_deg  == F64OfInput(probe.sun_whole, probe.sun_frac)
           angle        == f64_sun_moon_angle(moon_lon_deg, sun_lon_deg)
       IN  probe' = [probe EXCEPT !.done = TRUE, !.angle = angle,
                        !.phase = MoonPhase_from_angle(angle)]
    /\ UNCHANGED <<classifier, planetary_cache, cache_duration_secs, call, ret, mark>>

NextPhase == probe_moon_phase

SpecPhase == InitPhase /\ [][NextPhase]_vars

PhaseDone ==
    /\ probe.fn = "moon_phase" /\ probe.done
    /\ Representable(probe.moon_whole, probe.moon_frac)
    /\ Representable(probe.sun_whole, probe.sun_frac)

\* floor(lunar longitude - solar longitude)
FloorOfSeparation ==
    probe.moon_whole - probe.sun_whole
        - (IF probe.sun_frac.kind = "eps" /\ probe.sun_frac.sgn > 0 THEN 1 ELSE 0)

\* phase band floor(((lunar - solar) mod 360) / 45)
PhaseNumber == (FloorOfSeparation % 360) \div 45

SeparationIs(whole, frac_kind) ==
    /\ probe.sun_whole = 0 /\ probe.sun_frac.kind = "int"
    /\ probe.moon_whole = whole /\ probe.moon_frac.kind = frac_kind

\* C18: the Moon's phase is band floor(((lunar - solar) mod 360) / 45) of
\* the 8 phases, from the two longitudes of the snapshot; separation 0 and
\* 44.9 give New, 45 Waxing Crescent, 359.9 Waning Crescent; a Moon
\* longitude smaller than the Sun's wraps to a separation in [0, 360).
C18_LunarPhase ==
    PhaseDone =>
        /\ probe.phase = MoonPhase[PhaseNumber + 1]
        /\ ~probe.angle.neg /\ F64Less(probe.angle, F64_360_0)
        /\ SeparationIs(0, "int") => probe.phase = "NewMoon"
        /\ SeparationIs(44, "milli") => probe.phase = "NewMoon"
        /\ SeparationIs(45, "int") => probe.phase = "WaxingCrescent"
        /\ SeparationIs(359, "milli") => probe.phase = "WaningCrescent"

(***************************************************************************)
(* C19, C20: the narrative and the conditions report.                      *)
(***************************************************************************)
Narratives == {"RETROGRADE", "DEBUFFED", "COSMICALLY BLESSED", "enhanced", "neutral"}

C19_WitnessRetrograde ==
    /\ IsOrdinaryDecide
    /\ GoverningRecord.retrograde
    /\ ret.decision.element_boost = Hundredths[150]
    /\ ret.decision.reasoning.rule = "RETROGRADE"

\* an Interactive task at First Quarter (boost exactly 1.1) and a Desktop
\* task with Venus in a Water band (boost exactly 1.3)
C19_WitnessEdges ==
    /\ IsOrdinaryDecide
    /\ \/ /\ ret.decision.element_boost = Hundredths[130]
          /\ ret.decision.reasoning.rule = "enhanced"
       \/ /\ ret.decision.element_boost = Hundredths[110]
          /\ ret.decision.reasoning.rule = "neutral"

\* SpecWeather: conditions reports of an engine under one sky, drawn with
\* each governing body of a report line in any element and the other three
\* bodies tipping the element counts.
OtherBodyLons ==
    { <<0, 0, 0>>, <<359999, 359999, 359999>>, <<45 * MILLI, 45 * MILLI, 45 * MILLI>>,
      <<200 * MILLI, 200 * MILLI, 200 * MILLI>>, <<0, 359999, 45 * MILLI>>,
      <<359999, 200 * MILLI, 45 * MILLI>>, <<0, 0, 359999>>,
      <<45 * MILLI, 200 * MILLI, 200 * MILLI>> }

WeatherSkies ==
    { [today    |-> [p \in Planet |->
                        CASE p = "Sun" -> o[1] [] p = "Moon" -> o[2]
                          [] p = "Venus" -> o[3] [] OTHER -> g[p]],
       tomorrow |-> [p \in OrdinaryPlanet |->
                        rem_euclid_360((IF p = "Venus" THEN o[3] ELSE g[p]) + MILLI)]]
        : g \in [{"Mars", "Mercury", "Jupiter", "Saturn"} -> PlanetLons],
          o \in OtherBodyLons }

InitWeather ==
    /\ classifier \in [hash_seed : HashSeeds]
    /\ planetary_cache = None
    /\ cache_duration_secs \in 0..MaxTtl
    /\ call = NoCall
    /\ ret = NoReturn
    /\ mark = NoMark
    /\ probe \in [fn : {"sky"}, sky : WeatherSkies]

NextWeather ==
    \/ \E now \in Moments :
          get_cosmic_weather(now,
              IF needs_refresh(planetary_cache, now, cache_duration_secs)
              THEN probe.sky ELSE SkyBase) /\ UNCHANGED mark
    \/ Return /\ UNCHANGED mark

SpecWeather == InitWeather /\ [][NextWeather]_vars

IsReport == call.op = "get_cosmic_weather"

\* the number of bodies of the cached snapshot in an element
BodiesIn(e) ==
    Cardinality({i \in 1..Len(planetary_cache.positions) :
                    ElementAt(planetary_cache.positions[i].longitude) = e})

FireWaterClash == BodiesIn("Fire") >= 2 /\ BodiesIn("Water") >= 2

EarthAirClash == BodiesIn("Earth") >= 2 /\ BodiesIn("Air") >= 2

\* the status line of a body with its ideal and opposed element
StatusLine(line, body, ideal, opposed, clash) ==
    LET e == ElementAt(RecordOf(body).longitude)
    IN  /\ line = "BOOSTED but CONTESTED" <=> (e = ideal /\ clash)
        /\ line = "BOOSTED" <=> (e = ideal /\ ~clash)
        /\ line = "DEBUFFED" <=> e = opposed
        /\ line = "Neutral" <=> (e # ideal /\ e # opposed)

\* C20: the report counts the elements over the 7 bodies (sum 7), flags a
\* Fire/Water clash iff both counts are >= 2 and an Earth/Air clash iff
\* both are >= 2, and gives each of CPU-bound (Fire, Water), Network (Air,
\* Earth), Memory-heavy (Water, Fire), System (Earth, Air) the status
\* boosted-and-contested, boosted, debuffed or neutral.
C20_ConditionsReport ==
    IsReport =>
        /\ ret.report.fire_count = BodiesIn("Fire")
        /\ ret.report.earth_count = BodiesIn("Earth")
        /\ ret.report.air_count = BodiesIn("Air")
        /\ ret.report.water_count = BodiesIn("Water")
        /\ ret.report.fire_count + ret.report.earth_count
              + ret.report.air_count + ret.report.water_count = 7
        /\ ret.report.fire_water_tension <=> FireWaterClash
        /\ ret.report.earth_air_tension <=> EarthAirClash
        /\ ret.report.at_peace <=> (~FireWaterClash /\ ~EarthAirClash)
        /\ StatusLine(ret.report.cpu, "Mars", "Fire", "Water", FireWaterClash)
        /\ StatusLine(ret.report.net, "Mercury", "Air", "Earth", EarthAirClash)
        /\ StatusLine(ret.report.memory, "Jupiter", "Water", "Fire", FireWaterClash)
        /\ StatusLine(ret.report.system, "Saturn", "Earth", "Air", EarthAirClash)

\* a Fire/Water clash with Mars in Fire, Mercury in Air and no Earth/Air
\* clash: CPU-bound contested, Network boosted
C20_Witness ==
    /\ IsReport
    /\ BodiesIn("Fire") = 2 /\ BodiesIn("Water") >= 2
    /\ ret.report.cpu = "BOOSTED but CONTESTED"
    /\ ret.report.net = "BOOSTED"
    /\ ~ret.report.earth_air_tension

\* an Earth/Air clash with Saturn in Earth and Jupiter in Fire
C20_WitnessEarthAir ==
    /\ IsReport
    /\ ret.report.earth_air_tension
    /\ ret.report.system = "BOOSTED but CONTESTED"
    /\ ret.report.memory = "DEBUFFED"

(***************************************************************************)
(* SpecDispatch: the dispatch loop of main.rs over a fresh engine.  The    *)
(* options of the command line and the task waiting in the queue are drawn *)
(* at start; every step dequeues the task once more, asks the engine for   *)
(* its decision and computes the slice of the dispatched task.             *)
(***************************************************************************)
DispatchOpts ==
    { DefaultOpts,
      [DefaultOpts EXCEPT !.no_retrograde = TRUE],
      [DefaultOpts EXCEPT !.slice_us_min = 0],
      [slice_us |-> 1000, slice_us_min |-> 1000, no_retrograde |-> FALSE],
      [slice_us |-> 500, slice_us_min |-> 5000, no_retrograde |-> FALSE] }

\* the queued task and what the solver answers while it is dispatched: each
\* category with its governing body in every element, direct and
\* retrograde, an interactive task under every Moon, and the init process
DispatchTasks ==
    UNION { { [comm |-> c[1], pid |-> 500, sky |-> sky] : sky \in OrdinarySkies(c[2]) }
              : c \in { <<"gcc", "Mars">>, <<"sshd", "Mercury">>,
                        <<"xorg", "Venus">>, <<"postgres", "Jupiter">>,
                        <<"systemd", "Saturn">> } }
    \cup { [comm |-> "bash", pid |-> 500, sky |-> sky] : sky \in LunarSkies }
    \cup { [comm |-> "systemd", pid |-> 1, sky |-> SkyBase] }

NoDispatch == [pid |-> 0, priority_factor |-> F64Zero, slice_ns |-> 0]

InitDispatch ==
    /\ classifier \in [hash_seed : HashSeeds]
    /\ planetary_cache = None
    /\ cache_duration_secs \in 0..MaxTtl
    /\ call = NoCall
    /\ ret = NoReturn
    /\ mark = NoDispatch
    /\ probe \in [fn : {"dispatch"}, opts : DispatchOpts, task : DispatchTasks]

\* one iteration of the loop of dispatch_tasks: `mark` is the dispatched task
dispatch_tasks(now) ==
    /\ schedule_task(probe.task.comm, probe.task.pid, now,
                     IF ~is_critical(probe.task.pid)
                        /\ needs_refresh(planetary_cache, now, cache_duration_secs)
                     THEN probe.task.sky ELSE SkyBase)
    /\ mark' = [pid |-> probe.task.pid,
                priority_factor |-> priority_factor(ret'.decision),
                slice_ns |-> slice_ns(probe.opts, ret'.decision)]

NextDispatch ==
    \/ \E now \in Moments : dispatch_tasks(now)
    \/ Return /\ UNCHANGED mark

SpecDispatch == InitDispatch /\ [][NextDispatch]_vars

\* a task has been dispatched and its decision is at hand
IsDispatch == probe.fn = "dispatch" /\ IsDecide

\* priority clamped to 100..1000: a thousand times the factor of the contract
FactorThousandths == Max(100, IF ret.decision.priority > 1000 THEN 1000
                              ELSE ret.decision.priority)

\* min_slice + (max_slice - min_slice) * factor in nanoseconds, a whole
\* number because both slices are whole microseconds
ContractSlice ==
    probe.opts.slice_us_min * 1000
        + (probe.opts.slice_us - probe.opts.slice_us_min) * FactorThousandths

\* the decision of a body moving backward
InfluenceNegative == ret.decision.planetary_influence = MinusOne

Halved == ~probe.opts.no_retrograde /\ InfluenceNegative

\* C21: for every decision the dispatch loop computes factor =
\* clamp(priority/1000, 0.1, 1.0) and slice = min_slice + (max_slice -
\* min_slice) * factor, halved (to whole nanoseconds) iff retrograde effects
\* are enabled and the directional influence is negative, never halved when
\* the toggle is off; a pid-1 task receives exactly max_slice.
C21_SliceMapping ==
    IsDispatch =>
        /\ mark.slice_ns = IF Halved THEN ContractSlice \div 2 ELSE ContractSlice
        /\ IsPrivileged => mark.slice_ns = probe.opts.slice_us * 1000

\* C22: a decide call with pid = 1 performs no classification and no solver
\* query and leaves the cache (snapshot and captured_at, also an empty or
\* stale one) exactly as it was before the call.
C22_PrivilegedFrame ==
    [][ (call = NoCall /\ IsPrivileged') =>
            /\ planetary_cache' = planetary_cache
            /\ call'.queries = 0
            /\ call'.task_type = "Critical" ]_vars

\* a privileged request answered over a stale cache, which it leaves stale
C22_Witness ==
    /\ IsPrivileged
    /\ planetary_cache # None
    /\ needs_refresh(planetary_cache, call.now, cache_duration_secs)
    /\ ret.decision.priority = 1000

\* a privileged request answered over the empty cache of a new engine
C22_WitnessEmpty == IsPrivileged /\ planetary_cache = None

\* C23: one cache refresh issues at most 14 longitude queries to the solver
\* (one per luminary and, for each of the 5 ordinary bodies, one at the
\* moment and one a day later), and a request served from a fresh cache
\* issues none.
C23_QueryBound ==
    [][ (call = NoCall /\ call' # NoCall) =>
            /\ call'.queries <= 14
            /\ ~needs_refresh(planetary_cache, call'.now, cache_duration_secs)
                  => call'.queries = 0 ]_vars

\* C24: for every non-privileged task, identifier and snapshot the priority
\* of the decision lies between 24 and 308, strictly below the 1000 of a
\* pid-1 task, and its slice factor never reaches 1.0.
C24_CriticalHighest ==
    IsDispatch =>
        /\ IsPrivileged => ret.decision.priority = 1000
        /\ IsOrdinaryDecide =>
              /\ ret.decision.priority >= 24
              /\ ret.decision.priority <= 308
              /\ ret.decision.priority < 1000
              /\ F64Less(mark.priority_factor, Hundredths[100])

\* the strongest ordinary decision: a system task, Saturn direct in Earth
C24_Witness ==
    /\ IsDispatch
    /\ IsOrdinaryDecide
    /\ ret.decision.priority = 308
    /\ ~F64Less(mark.priority_factor, Hundredths[10])

\* the weakest one: a memory-heavy task under a retrograde Jupiter
C24_WitnessLowest ==
    IsDispatch /\ IsOrdinaryDecide /\ ret.decision.priority = 24

(***************************************************************************)
(* SpecSlice: the slice computation of the dispatch loop applied to two    *)
(* decisions of the engine under the same options.                         *)
(***************************************************************************)
\* the decisions schedule_task returns for the tasks of DispatchTasks
ProducibleDecisions ==
    { IF is_critical(t.pid) THEN CriticalDecision
      ELSE DecisionTable[calculate_planetary_positions(t.sky)]
                        [classify_scan(IterationOrder(1), t.comm)]
        : t \in DispatchTasks }

\* the options with slice_us_min <= slice_us
SliceOpts == {o \in DispatchOpts : o.slice_us_min <= o.slice_us}

NoSlice == -1

InitSlice ==
    /\ classifier \in [hash_seed : HashSeeds]
    /\ planetary_cache = None
    /\ cache_duration_secs \in 0..MaxTtl
    /\ call = NoCall
    /\ ret = NoReturn
    /\ mark = NoMark
    /\ probe \in [fn : {"slice_ns"}, opts : SliceOpts,
                  first : ProducibleDecisions, second : ProducibleDecisions,
                  first_slice_ns : {NoSlice}, second_slice_ns : {NoSlice}]

\* the slices of the two decisions
probe_slice_ns ==
    /\ probe.fn = "slice_ns"
    /\ probe.first_slice_ns = NoSlice
    /\ probe' = [probe EXCEPT
                    !.first_slice_ns = slice_ns(probe.opts, probe.first),
                    !.second_slice_ns = slice_ns(probe.opts, probe.second)]
    /\ UNCHANGED <<classifier, planetary_cache, cache_duration_secs, call, ret, mark>>

NextSlice == probe_slice_ns

SpecSlice == InitSlice /\ [][NextSlice]_vars

SliceDone == probe.fn = "slice_ns" /\ probe.first_slice_ns # NoSlice

\* C25: with slice_us_min <= slice_us, of two decisions the engine can
\* produce the one with the higher priority never gets the shorter slice,
\* also when one of the two is retrograde and halved.
C25_SliceMonotone ==
    (SliceDone /\ probe.first.priority > probe.second.priority)
        => probe.first_slice_ns >= probe.second_slice_ns

\* a direct decision of priority 60 against a retrograde one of priority 30
\* whose slice is halved
C25_Witness ==
    /\ SliceDone
    /\ probe.opts = DefaultOpts
    /\ probe.first.priority = 60
    /\ probe.first.planetary_influence # MinusOne
    /\ probe.second.priority = 30
    /\ probe.second.planetary_influence = MinusOne
    /\ probe.second_slice_ns < probe.first_slice_ns

\* two direct decisions above the floor of the factor: strictly longer slice
C25_WitnessDirect ==
    /\ SliceDone
    /\ probe.first.priority = 308
    /\ probe.second.priority = 195
    /\ probe.first_slice_ns > probe.second_slice_ns

\* C26: with slice_us_min <= slice_us the slice of every dispatched task is
\* at least the configured minimum, slice_us_min * 1000 ns, whatever the
\* decision and the retrograde toggle.
C26_MinimumSlice ==
    (IsDispatch /\ probe.opts.slice_us_min <= probe.opts.slice_us)
        => mark.slice_ns >= probe.opts.slice_us_min * 1000

\* the flavor line of each opposing (element, category) pair of the matrix
OppositionLine ==
    [pair \in { <<"Water", "CpuIntensive">>, <<"Earth", "Network">>,
                <<"Air", "System">>, <<"Fire", "MemoryHeavy">> } |->
        CASE pair = <<"Water", "CpuIntensive">> -> "Water dampens fire"
          [] pair = <<"Earth", "Network">>      -> "Earth blocks air"
          [] pair = <<"Air", "System">>         -> "Air disrupts earth"
          [] pair = <<"Fire", "MemoryHeavy">>   -> "Fire evaporates water"]

\* C27: for each of the four opposing pairs (Water, CPU-bound), (Earth,
\* Network), (Air, System), (Fire, Memory-heavy), when the governing body is
\* direct in that element the decision carries the elemental-opposition
\* debuff narrative with the flavor line of the pair.
C27_OppositionDebuff ==
    IsOrdinaryDecide =>
        \A pair \in DOMAIN OppositionLine :
            ( /\ call.task_type = pair[2]
              /\ ElementAt(GoverningRecord.longitude) = pair[1]
              /\ ~GoverningRecord.retrograde )
            => /\ ret.decision.reasoning.rule = "DEBUFFED"
               /\ ret.decision.reasoning.opposition = OppositionLine[pair]

====
